---- MODULE Spec2Model ----
(***************************************************************************)
(* Model of the interview calendar backend (src/backend.py, class          *)
(* Calendar): an SQLite store of people and availability ranges, the       *)
(* expansion of ranges into hourly slots and the meeting intersection.     *)
(*                                                                         *)
(* Python strings are sequences of one-character strings, so that the      *)
(* str.format() of the SQL templates, SQLite's reading of the formatted    *)
(* text, datetime.isoformat() and datetime.strptime() are computed and     *)
(* not assumed to be inverse to each other.                                *)
(***************************************************************************)
EXTENDS Integers, Sequences, FiniteSets, TLC

(***************************************************************************)
(* Bounds of the model.                                                    *)
(***************************************************************************)
\* largest number of rows of the table `slots`
MaxRows == 2
\* longest list of interviewers handed to organize_meeting
MaxList == 2

(***************************************************************************)
(* Python values.  Every value carries its type, as isinstance() sees it.  *)
(***************************************************************************)
\* a str, val its characters
Str(s) == [type |-> "str", val |-> s]

\* an int, val the digits that str.format() prints for it
PyInt(digits) == [type |-> "int", val |-> digits]

\* None
PyNone == [type |-> "NoneType", val |-> <<"N", "o", "n", "e">>]

\* a list of str, items the strings in order
PyList(l) == [type |-> "list", items |-> l]

\* datetime(2018, 11, day, h, mi, 0, us, tzinfo); tz is "" for a naive
\* datetime (the empty string), otherwise its UTC offset as isoformat()
\* prints it
Datetime(day, h, mi, us, tz) ==
    [type |-> "datetime", day |-> day, h |-> h, mi |-> mi, us |-> us, tz |-> tz]

isinstance(v, t) == v.type = t

(***************************************************************************)
(* Characters and strings.                                                 *)
(***************************************************************************)
Digits == <<"0", "1", "2", "3", "4", "5", "6", "7", "8", "9">>

DigitChar(n) == Digits[n + 1]

DigitVal(c) == CHOOSE n \in 0..9 : Digits[n + 1] = c

IsDigit(c) == \E n \in 0..9 : Digits[n + 1] = c

\* code point order of the characters that occur
CharOrder == <<"'", "+", ",", "-", ".", "0", "1", "2", "3", "4", "5", "6",
               "7", "8", "9", ":", "A", "B", "N", "O", "T", "a", "b", "m",
               "x", "z">>

Ord(c) == CHOOSE i \in 1..Len(CharOrder) : CharOrder[i] = c

\* Python's str.__lt__: the strings differ first at some position i, where
\* s has ended or has the character of the smaller code point
StrLess(s, t) ==
    \E i \in 1..Len(t) :
        /\ i <= Len(s) + 1
        /\ \A j \in 1..(i - 1) : s[j] = t[j]
        /\ (i = Len(s) + 1 \/ Ord(s[i]) < Ord(t[i]))

\* "%02d" % n
TwoDigits(n) == <<DigitChar(n \div 10), DigitChar(n % 10)>>

\* "%06d" % n
SixDigits(n) ==
    <<DigitChar((n \div 100000) % 10), DigitChar((n \div 10000) % 10),
      DigitChar((n \div 1000) % 10), DigitChar((n \div 100) % 10),
      DigitChar((n \div 10) % 10), DigitChar(n % 10)>>

(***************************************************************************)
(* SQLite's reading of a formatted statement.  The statements are built    *)
(* with str.format(), so the arguments are pasted between quotes and read  *)
(* back by SQLite's tokenizer.  Reading left to right, the tokenizer is    *)
(* inside a literal exactly when it has read an odd number of quotes, so   *)
(* the tokens are given here by the positions of the quotes.               *)
(***************************************************************************)
Quote == "'"

Token(kind, val) == [tok |-> kind, val |-> val]

\* the number of quotes among the first i characters of `text`
QuotesUpTo(text, i) == Cardinality({j \in 1..i : text[j] = Quote})

\* the number of quotes in a row that end at text[i]
QuoteRun(text, i) ==
    LET others == {j \in 1..i : text[j] # Quote} IN
    IF others = {} THEN i ELSE i - (CHOOSE j \in others : \A k \in others : k <= j)

\* text[i] opens a literal: a quote that follows an even number of quotes
\* and no quote
Opens(text, i) ==
    /\ text[i] = Quote
    /\ QuotesUpTo(text, i - 1) % 2 = 0
    /\ (i = 1 \/ text[i - 1] # Quote)

\* text[i] closes a literal: a quote that makes the number of quotes even
\* and that no quote follows
Closes(text, i) ==
    /\ text[i] = Quote
    /\ QuotesUpTo(text, i) % 2 = 0
    /\ (i = Len(text) \/ text[i + 1] # Quote)

\* text[i] is a character outside every literal
Outside(text, i) == text[i] # Quote /\ QuotesUpTo(text, i) % 2 = 0

\* the characters of a literal's body: each doubled quote stands for one
Unescape(body) ==
    LET kept == SelectSeq([j \in 1..Len(body) |-> j],
                          LAMBDA j : body[j] # Quote \/ QuoteRun(body, j) % 2 = 0)
    IN [k \in 1..Len(kept) |-> body[kept[k]]]

\* the token that starts at text[i]
TokenAt(text, i) ==
    IF text[i] = ","  THEN Token("comma", <<>>)
    ELSE IF text[i] # Quote THEN Token("other", <<text[i]>>)
    ELSE LET ends == {j \in i + 1..Len(text) : Closes(text, j)} IN
         IF ends = {} THEN Token("unterminated", <<>>)
         ELSE LET end == CHOOSE j \in ends : \A k \in ends : j <= k IN
              Token("lit", Unescape(SubSeq(text, i + 1, end - 1)))

\* the tokens of `text`, as SQLite's tokenizer reads them: a string literal
\* starts at a quote and runs to the first quote that is not doubled, and a
\* literal that is still open at the end of the text is the token
\* "unterminated" (sqlite3.OperationalError: unrecognized token)
SqlTokens(text) ==
    LET starts == SelectSeq([i \in 1..Len(text) |-> i],
                            LAMBDA i : Opens(text, i) \/ Outside(text, i))
    IN [k \in 1..Len(starts) |-> TokenAt(text, starts[k])]

\* the text is a list of exactly n string literals separated by commas
IsLiteralList(toks, n) ==
    /\ Len(toks) = 2 * n - 1
    /\ \A i \in 1..Len(toks) :
          toks[i].tok = (IF i % 2 = 1 THEN "lit" ELSE "comma")

\* cursor.execute() of a statement whose variable part is `text` and which
\* takes n values: the values SQLite sees, or OperationalError.  The
\* arguments of this model hold letters, digits, date punctuation and
\* quotes, so a text that is not a list of n literals is a syntax error.
SqlValues(text, n) ==
    LET toks == SqlTokens(text) IN
    IF IsLiteralList(toks, n)
    THEN [ok |-> TRUE, vals |-> [i \in 1..n |-> toks[2 * i - 1].val]]
    ELSE [ok |-> FALSE, vals |-> <<>>]

\* "'{}'".format(s)
Quoted(s) == <<Quote>> \o s \o <<Quote>>

\* the VALUES list of ADD_USER_SQL.format(user_id, name)
ADD_USER_SQL(user_id, name) == Quoted(user_id) \o <<",">> \o Quoted(name)

\* the right-hand side of the WHERE clause of GET_USER_SQL.format(user_id)
GET_USER_SQL(user_id) == Quoted(user_id)

\* the VALUES list of ADD_SLOT_SQL.format(user_id, date_from, date_to)
ADD_SLOT_SQL(user_id, date_from, date_to) ==
    Quoted(user_id) \o <<",">> \o Quoted(date_from) \o <<",">> \o Quoted(date_to)

\* the right-hand side of the WHERE clause of GET_SLOT_SQL.format(user_id)
GET_SLOT_SQL(user_id) == Quoted(user_id)

(***************************************************************************)
(* datetime.                                                               *)
(***************************************************************************)
\* datetime.isoformat(): YYYY-MM-DDTHH:MM:SS[.mmmmmm][+HH:MM]
isoformat(d) ==
    <<"2", "0", "1", "8", "-", "1", "1", "-">> \o TwoDigits(d.day) \o <<"T">>
    \o TwoDigits(d.h) \o <<":">> \o TwoDigits(d.mi) \o <<":", "0", "0">>
    \o (IF d.us = 0 THEN <<>> ELSE <<".">> \o SixDigits(d.us))
    \o d.tz

\* datetime.strptime(s, "%Y-%m-%dT%H:%M:%S"): text after the seconds is
\* "unconverted data remains" (ValueError)
strptime(s) ==
    IF /\ Len(s) = 19
       /\ \A i \in {1, 2, 3, 4, 6, 7, 9, 10, 12, 13, 15, 16, 18, 19} : IsDigit(s[i])
       /\ s[5] = "-" /\ s[8] = "-" /\ s[11] = "T" /\ s[14] = ":" /\ s[17] = ":"
    THEN [ok |-> TRUE,
          dt |-> Datetime(10 * DigitVal(s[9]) + DigitVal(s[10]),
                          10 * DigitVal(s[12]) + DigitVal(s[13]),
                          10 * DigitVal(s[15]) + DigitVal(s[16]), 0, <<>>)]
    ELSE [ok |-> FALSE, dt |-> Datetime(0, 0, 0, 0, <<>>)]

\* hours of the UTC offset of an aware datetime
OffsetHours(tz) ==
    IF tz = <<>> THEN 0 ELSE 10 * DigitVal(tz[2]) + DigitVal(tz[3])

\* whole seconds since the start of the month, in UTC for an aware datetime
Seconds(d) == ((d.day * 24 + d.h - OffsetHours(d.tz)) * 60 + d.mi) * 60

\* a < b, for two naive or two aware datetimes
DatetimeLess(a, b) ==
    \/ Seconds(a) < Seconds(b)
    \/ Seconds(a) = Seconds(b) /\ a.us < b.us

\* a - b raises TypeError for a naive and an aware datetime
CanSubtract(a, b) == (a.tz = <<>>) <=> (b.tz = <<>>)

\* date_from + timedelta(seconds=3600)
AddHour(d) ==
    IF d.h < 23 THEN [d EXCEPT !.h = d.h + 1]
    ELSE [d EXCEPT !.day = d.day + 1, !.h = 0]

\* datetime.replace(minute=0, second=0, microsecond=0): a NEW datetime
replace(d) == [d EXCEPT !.mi = 0, !.us = 0]

(***************************************************************************)
(* The store and the result of a call.                                     *)
(***************************************************************************)
\* a row of the table `people` (INIT_DB_SQL1)
PeopleRow(username, name) == [username |-> username, name |-> name]

\* a row of the table `slots` (INIT_DB_SQL2)
SlotRow(username, date_from, date_to) ==
    [username |-> username, date_from |-> date_from, date_to |-> date_to]

\* the database after Calendar.__init__ on a new file: both tables empty
EmptyDb == [people |-> {}, slots |-> <<>>]

\* the envelope a call returns
Return(code, desc, data) ==
    [kind |-> "return", code |-> code, desc |-> desc, data |-> data]

\* a call that ends in an exception it does not catch
Raise(exc) == [kind |-> "raise", code |-> -1, desc |-> exc, data |-> <<>>]

\* the outcome of a call: the database it leaves and what the caller gets
Outcome(d, r) == [db |-> d, ret |-> r]

Usernames(d) == {r.username : r \in d.people}

(***************************************************************************)
(* Calendar.add_user                                                       *)
(***************************************************************************)
\* the INSERT of add_user and its except clause: a second row with the same
\* username breaks PRIMARY KEY (sqlite3.IntegrityError) and leaves the table
\* as it was
InsertPerson(d, username, name) ==
    IF username \in Usernames(d)
    THEN Outcome(d, Return(1, "Cannot add user: user already exists", <<>>))
    ELSE Outcome([d EXCEPT !.people = @ \cup {PeopleRow(username, name)}],
                 Return(0, "Operation successful", <<>>))

add_user(d, user_id, name) ==
    LET stmt == SqlValues(ADD_USER_SQL(user_id, name), 2) IN
    IF ~stmt.ok
    THEN Outcome(d, Raise("OperationalError"))
    ELSE InsertPerson(d, stmt.vals[1], stmt.vals[2])

(***************************************************************************)
(* Calendar.get_user                                                       *)
(***************************************************************************)
get_user(d, user_id) ==
    LET stmt == SqlValues(GET_USER_SQL(user_id), 1) IN
    IF ~stmt.ok
    THEN Outcome(d, Raise("OperationalError"))
    ELSE LET rows == {r \in d.people : r.username = stmt.vals[1]} IN
         IF rows = {}
         THEN Outcome(d, Return(0, "Operation successful", <<>>))
         ELSE Outcome(d, Return(0, "Operation successful",
                                (CHOOSE r \in rows : TRUE).name))

(***************************************************************************)
(* Calendar.add_slots                                                      *)
(***************************************************************************)
\* an INSERT that writes the row first and meets the FOREIGN KEY failure
\* afterwards, with the row left in the table
InsertSlotNoRollback(d, username, date_from, date_to) ==
    LET written == [d EXCEPT !.slots = Append(@, SlotRow(username, date_from, date_to))]
    IN IF username \notin Usernames(d)
       THEN Outcome(written, Return(3, "Cannot add slot: integrity error", <<>>))
       ELSE Outcome(written, Return(0, "Operation successful", <<>>))

\* an INSERT into a table without the FOREIGN KEY
InsertSlotNoForeignKey(d, username, date_from, date_to) ==
    Outcome([d EXCEPT !.slots = Append(@, SlotRow(username, date_from, date_to))],
            Return(0, "Operation successful", <<>>))

\* the INSERT of add_slots and its except clause: a row of an unknown
\* username breaks FOREIGN KEY (sqlite3.IntegrityError) and leaves the table
\* as it was
InsertSlot(d, username, date_from, date_to) ==
    IF username \notin Usernames(d)
    THEN Outcome(d, Return(3, "Cannot add slot: integrity error", <<>>))
    ELSE Outcome([d EXCEPT !.slots = Append(@, SlotRow(username, date_from, date_to))],
                 Return(0, "Operation successful", <<>>))

\* add_slots with the person looked up ahead of the check of the range
add_slots_person_first(d, user_id, slot_from, slot_to) ==
    IF ~(isinstance(user_id, "str") /\ isinstance(slot_from, "datetime")
         /\ isinstance(slot_to, "datetime"))
    THEN Outcome(d, Return(1, "Error in add_slots: parameters of wrong type", <<>>))
    ELSE IF user_id.val \notin Usernames(d)
    THEN Outcome(d, Return(3, "Cannot add slot: integrity error", <<>>))
    ELSE IF ~CanSubtract(slot_to, slot_from)
    THEN Outcome(d, Raise("TypeError"))
    ELSE IF ~DatetimeLess(slot_from, slot_to)
    THEN Outcome(d, Return(2, "Error in add_slots: empty range", <<>>))
    ELSE LET stmt == SqlValues(ADD_SLOT_SQL(user_id.val, isoformat(slot_from),
                                            isoformat(slot_to)), 3)
         IN IF ~stmt.ok
            THEN Outcome(d, Raise("OperationalError"))
            ELSE InsertSlot(d, stmt.vals[1], stmt.vals[2], stmt.vals[3])

add_slots(d, user_id, slot_from, slot_to) ==
    IF ~(isinstance(user_id, "str") /\ isinstance(slot_from, "datetime")
         /\ isinstance(slot_to, "datetime"))
    THEN Outcome(d, Return(1, "Error in add_slots: parameters of wrong type", <<>>))
    ELSE IF ~CanSubtract(slot_to, slot_from)
    THEN Outcome(d, Raise("TypeError"))
    ELSE IF ~DatetimeLess(slot_from, slot_to)
    THEN Outcome(d, Return(2, "Error in add_slots: empty range", <<>>))
    ELSE \* the two calls of replace() build new datetimes that are dropped:
         \* slot_from and slot_to are formatted as they came
         LET dropped == <<replace(slot_from), replace(slot_to)>>
             stmt == SqlValues(ADD_SLOT_SQL(user_id.val, isoformat(slot_from),
                                            isoformat(slot_to)), 3)
         IN IF ~stmt.ok
            THEN Outcome(d, Raise("OperationalError"))
            ELSE InsertSlot(d, stmt.vals[1], stmt.vals[2], stmt.vals[3])

(***************************************************************************)
(* Calendar.get_slots                                                      *)
(***************************************************************************)
\* the while loop of get_slots: one timestamp per hour from date_from while
\* date_from < date_to
RECURSIVE ExpandRange(_, _)
ExpandRange(date_from, date_to) ==
    IF DatetimeLess(date_from, date_to)
    THEN <<isoformat(date_from)>> \o ExpandRange(AddHour(date_from), date_to)
    ELSE <<>>

\* a for loop that leaves out the timestamps the data already holds
RECURSIVE ExpandRowsDistinct(_, _)
ExpandRowsDistinct(rows, data) ==
    IF rows = <<>> THEN [ok |-> TRUE, data |-> data]
    ELSE LET date_from == strptime(Head(rows).date_from)
             date_to == strptime(Head(rows).date_to)
         IN IF ~date_from.ok \/ ~date_to.ok
            THEN [ok |-> FALSE, data |-> <<>>]
            ELSE ExpandRowsDistinct(
                     Tail(rows),
                     data \o SelectSeq(ExpandRange(date_from.dt, date_to.dt),
                                       LAMBDA t : \A j \in 1..Len(data) : data[j] # t))

\* the for loop of get_slots over the rows: the data so far, or ValueError
RECURSIVE ExpandRows(_, _)
ExpandRows(rows, data) ==
    IF rows = <<>> THEN [ok |-> TRUE, data |-> data]
    ELSE LET date_from == strptime(Head(rows).date_from)
             date_to == strptime(Head(rows).date_to)
         IN IF ~date_from.ok \/ ~date_to.ok
            THEN [ok |-> FALSE, data |-> <<>>]
            ELSE ExpandRows(Tail(rows),
                            data \o ExpandRange(date_from.dt, date_to.dt))

\* a get_slots that takes the rows it reports out of the table
get_slots_consuming(d, user_id) ==
    LET stmt == SqlValues(GET_SLOT_SQL(user_id), 1) IN
    IF ~stmt.ok
    THEN Outcome(d, Raise("OperationalError"))
    ELSE LET rows == SelectSeq(d.slots, LAMBDA r : r.username = stmt.vals[1])
             others == SelectSeq(d.slots, LAMBDA r : r.username # stmt.vals[1])
             expanded == ExpandRows(rows, <<>>)
         IN IF ~expanded.ok
            THEN Outcome(d, Raise("ValueError"))
            ELSE Outcome([d EXCEPT !.slots = others],
                         Return(0, "Operation successful", expanded.data))

\* a get_slots that sorts its data
get_slots_sorted(d, user_id) ==
    LET stmt == SqlValues(GET_SLOT_SQL(user_id), 1) IN
    IF ~stmt.ok
    THEN Outcome(d, Raise("OperationalError"))
    ELSE LET rows == SelectSeq(d.slots, LAMBDA r : r.username = stmt.vals[1])
             expanded == ExpandRows(rows, <<>>)
         IN IF ~expanded.ok
            THEN Outcome(d, Raise("ValueError"))
            ELSE Outcome(d, Return(0, "Operation successful",
                                   SortSeq(expanded.data, StrLess)))

get_slots(d, user_id) ==
    LET stmt == SqlValues(GET_SLOT_SQL(user_id), 1) IN
    IF ~stmt.ok
    THEN Outcome(d, Raise("OperationalError"))
    ELSE LET rows == SelectSeq(d.slots, LAMBDA r : r.username = stmt.vals[1])
             expanded == ExpandRows(rows, <<>>)
         IN IF ~expanded.ok
            THEN Outcome(d, Raise("ValueError"))
            ELSE Outcome(d, Return(0, "Operation successful", expanded.data))

(***************************************************************************)
(* Calendar.organize_meeting                                               *)
(***************************************************************************)
\* aggr_times is a dict from slot to the list of the persons that reported
\* it; a sequence of entries in insertion order stands for it
HasKey(aggr_times, slot) == \E i \in 1..Len(aggr_times) : aggr_times[i].slot = slot

\* the inner loop: aggr_times[slot].append(person) for every slot of `slots`
RECURSIVE AppendPerson(_, _, _)
AppendPerson(aggr_times, person, slots) ==
    IF slots = <<>> THEN aggr_times
    ELSE LET slot == Head(slots)
             withKey == IF HasKey(aggr_times, slot) THEN aggr_times
                        ELSE Append(aggr_times, [slot |-> slot, persons |-> <<>>])
             appended == [i \in 1..Len(withKey) |->
                            IF withKey[i].slot = slot
                            THEN [withKey[i] EXCEPT !.persons = Append(@, person)]
                            ELSE withKey[i]]
         IN AppendPerson(appended, person, Tail(slots))

\* the outer loop over interviewers+[interviewee]: aggr_times at its end, or
\* the exception of a get_slots call
RECURSIVE Aggregate(_, _, _)
Aggregate(d, persons, aggr_times) ==
    IF persons = <<>> THEN [ok |-> TRUE, exc |-> "", aggr |-> aggr_times]
    ELSE LET slots == get_slots(d, Head(persons)).ret IN
         IF slots.kind = "raise"
         THEN [ok |-> FALSE, exc |-> slots.desc, aggr |-> <<>>]
         ELSE Aggregate(d, Tail(persons),
                        AppendPerson(aggr_times, Head(persons), slots.data))

\* the slots of aggr_times that len(interviewers)+1 reports or more name
CommonSlotsAtLeast(aggr_times, interviewers) ==
    LET kept == SelectSeq(aggr_times,
                          LAMBDA e : Len(e.persons) >= 1 + Len(interviewers))
    IN [i \in 1..Len(kept) |-> kept[i].slot]

\* the slots of aggr_times that len(interviewers)+1 reports name
CommonSlots(aggr_times, interviewers) ==
    LET kept == SelectSeq(aggr_times,
                          LAMBDA e : Len(e.persons) = 1 + Len(interviewers))
    IN [i \in 1..Len(kept) |-> kept[i].slot]

\* a list left in the order of the dict
sortSkipped(data) == data

\* list.sort() of a list of strings
sort(data) == SortSeq(data, StrLess)

\* organize_meeting with the check of the interviewee ahead of the check of
\* the list
organize_meeting_interviewee_first(d, interviewee, interviewers) ==
    IF ~isinstance(interviewee, "str")
    THEN Outcome(d, Return(2, "Wrong interviewee name", <<>>))
    ELSE IF ~isinstance(interviewers, "list")
    THEN Outcome(d, Return(1, "Wrong list of interviewers", <<>>))
    ELSE IF Len(interviewers.items) = 0
    THEN Outcome(d, Return(3, "Missing at least one interviewer", <<>>))
    ELSE LET aggr == Aggregate(d, interviewers.items \o <<interviewee.val>>, <<>>) IN
         IF ~aggr.ok
         THEN Outcome(d, Raise(aggr.exc))
         ELSE Outcome(d, Return(0, "Operation successful",
                                sort(CommonSlots(aggr.aggr, interviewers.items))))

organize_meeting(d, interviewee, interviewers) ==
    IF ~isinstance(interviewers, "list")
    THEN Outcome(d, Return(1, "Wrong list of interviewers", <<>>))
    ELSE IF ~isinstance(interviewee, "str")
    THEN Outcome(d, Return(2, "Wrong interviewee name", <<>>))
    ELSE IF Len(interviewers.items) = 0
    THEN Outcome(d, Return(3, "Missing at least one interviewer", <<>>))
    ELSE LET aggr == Aggregate(d, interviewers.items \o <<interviewee.val>>, <<>>) IN
         IF ~aggr.ok
         THEN Outcome(d, Raise(aggr.exc))
         ELSE Outcome(d, Return(0, "Operation successful",
                                sort(CommonSlots(aggr.aggr, interviewers.items))))

(***************************************************************************)
(* The inputs of the calls.                                                *)
(***************************************************************************)
X == <<"x">>

M == <<"m">>

\* a user id with a quote in it
Z == <<"z", "'">>

UserIds == {X, M, Z}

\* display names: plain, with a doubled quote, with a single quote
Names == {<<"N">>, <<"a", "'", "'", "b">>, <<"O", "'", "B">>}

Naive(h, mi, us) == Datetime(19, h, mi, us, <<>>)

\* 09:00, 09:00:00.000001, 10:30, 11:00 and 09:00+01:00 of 2018-11-19
Datetimes ==
    {Naive(9, 0, 0), Naive(9, 0, 1), Naive(10, 30, 0), Naive(11, 0, 0),
     Datetime(19, 9, 0, 0, <<"+", "0", "1", ":", "0", "0">>)}

\* what a caller may hand to add_slots as user_id
SlotUserArgs == {Str(u) : u \in UserIds} \cup {PyInt(<<"1", "2">>)}

\* what a caller may hand to add_slots as slot_from and slot_to
InstantArgs == Datetimes \cup {PyNone}

\* the lists of at most n of the persons
RECURSIVE ListsUpTo(_, _)
ListsUpTo(persons, n) ==
    IF n = 0 THEN {<<>>}
    ELSE LET shorter == ListsUpTo(persons, n - 1) IN
         shorter \cup {Append(l, p) : l \in shorter, p \in persons}

\* what a caller may hand to organize_meeting
IntervieweeArgs == {Str(X), Str(M), PyInt(<<"1", "2">>)}

InterviewerArgs == {PyList(l) : l \in ListsUpTo({X, M}, MaxList)} \cup {Str(M)}

(***************************************************************************)
(* The state: the database file, the call in progress and its result, and  *)
(* the history of the registrations that succeeded.                        *)
(***************************************************************************)
VARIABLES db, call, ret, registered

vars == <<db, call, ret, registered>>

\* no call in progress
NoCall == [op |-> "none", args |-> <<>>]

NoRet == [kind |-> "none", code |-> -1, desc |-> "", data |-> <<>>]

Call(op, args) == [op |-> op, args |-> args]

Init ==
    /\ db = EmptyDb
    /\ call = NoCall
    /\ ret = NoRet
    /\ registered = {}

\* a request runs a call on the database file and holds its outcome
Run(c, outcome) ==
    /\ call = NoCall
    /\ Len(outcome.db.slots) <= MaxRows
    /\ db' = outcome.db
    /\ call' = c
    /\ ret' = outcome.ret

AddUser ==
    \E user_id \in UserIds, name \in Names :
        LET outcome == add_user(db, user_id, name) IN
        /\ Run(Call("add_user", <<user_id, name>>), outcome)
        /\ registered' = IF outcome.ret.kind = "return" /\ outcome.ret.code = 0
                         THEN registered \cup {<<user_id, name>>}
                         ELSE registered

GetUser ==
    \E user_id \in UserIds :
        /\ Run(Call("get_user", <<user_id>>), get_user(db, user_id))
        /\ UNCHANGED registered

AddSlots ==
    \E user_id \in SlotUserArgs, slot_from \in InstantArgs, slot_to \in InstantArgs :
        /\ Run(Call("add_slots", <<user_id, slot_from, slot_to>>),
               add_slots(db, user_id, slot_from, slot_to))
        /\ UNCHANGED registered

GetSlots ==
    \E user_id \in UserIds :
        /\ Run(Call("get_slots", <<user_id>>), get_slots(db, user_id))
        /\ UNCHANGED registered

OrganizeMeeting ==
    \E interviewee \in IntervieweeArgs, interviewers \in InterviewerArgs :
        /\ Run(Call("organize_meeting", <<interviewee, interviewers>>),
               organize_meeting(db, interviewee, interviewers))
        /\ UNCHANGED registered

\* the request ends: the adapter has reported the outcome, and the next
\* request opens the database file again
EndRequest ==
    /\ call # NoCall
    /\ call' = NoCall
    /\ ret' = NoRet
    /\ UNCHANGED <<db, registered>>

Next ==
    \/ AddUser
    \/ GetUser
    \/ AddSlots
    \/ GetSlots
    \/ OrganizeMeeting
    \/ EndRequest

Spec == Init /\ [][Next]_vars

(***************************************************************************)
(* The adapters: what the HTTP resources (src/flask_server.py) and the     *)
(* command line (src/calendar_cli.py) report for the retval of the call    *)
(* they made.                                                              *)
(***************************************************************************)
\* People.get: 200 with the name, or abort(404) for an empty name
People_get(retval) == IF retval.data # <<>> THEN 200 ELSE 404

\* People.post
People_post(retval) == IF retval.code # 0 THEN 400 ELSE 200

\* Slots.get: the retval as it is
Slots_get(retval) == 200

\* a Slots.post that answers 200 whatever the code is
Slots_post_always_ok(retval) == 200

\* Slots.post
Slots_post(retval) == IF retval.code # 0 THEN 400 ELSE 200

\* Meeting.get
Meeting_get(retval) == IF retval.code # 0 THEN 400 ELSE 200

\* the HTTP status of the request that made call c and got r; an exception
\* that leaves the resource method is answered with 500
FlaskStatus(c, r) ==
    IF r.kind = "raise" THEN 500
    ELSE CASE c.op = "get_user" -> People_get(r)
           [] c.op = "add_user" -> People_post(r)
           [] c.op = "get_slots" -> Slots_get(r)
           [] c.op = "add_slots" -> Slots_post(r)
           [] c.op = "organize_meeting" -> Meeting_get(r)

\* the command line: "stderr" when it prints an error message, "stdout"
\* when it prints the data or nothing, "traceback" when the exception ends
\* the process
CliReport(c, r) ==
    IF r.kind = "raise" THEN "traceback"
    ELSE CASE c.op = "get_user" -> (IF r.data # <<>> THEN "stdout" ELSE "stderr")
           [] c.op = "add_user" -> (IF r.code # 0 THEN "stderr" ELSE "stdout")
           [] c.op = "add_slots" -> (IF r.code # 0 THEN "stderr" ELSE "stdout")
           [] c.op = "get_slots" -> (IF r.code = 0 THEN "stdout" ELSE "stderr")
           [] c.op = "organize_meeting" -> (IF r.code = 0 THEN "stdout" ELSE "stderr")

(***************************************************************************)
(* Two concurrent registrations.  Each caller has its own connection to    *)
(* the database file, as People.post opens one per request, and runs       *)
(* add_user for the same user id.  In this specification `call` and `ret`  *)
(* hold one entry per caller, and the entry of `call` carries the caller's *)
(* position in add_user:                                                   *)
(*   "start"     before cursor.execute()                                   *)
(*   "inserted"  the INSERT is done in the caller's open transaction,      *)
(*               which holds the write lock of the file; before commit()   *)
(*   "refused"   add_user has returned code 1; the transaction that the    *)
(*               failed INSERT opened is still open and holds the lock     *)
(*   "returned"  add_user has returned or raised, no lock held             *)
(*   "closed"    the request is over and its connection is closed          *)
(***************************************************************************)
Callers == {1, 2}

\* the names the two callers give: those of Names and a second plain one
CallerNames == Names \cup {<<"B">>}

ConcurrentCall(user_id, name) ==
    [op |-> "add_user", args |-> <<user_id, name>>, pc |-> "start"]

\* both connections are open on a database file with empty tables
InitConcurrent ==
    /\ db = EmptyDb
    /\ registered = {}
    /\ ret = [c \in Callers |-> NoRet]
    /\ \E user_id \in UserIds, n1 \in CallerNames, n2 \in CallerNames :
          call = [c \in Callers |-> ConcurrentCall(user_id, IF c = 1 THEN n1 ELSE n2)]

\* the caller's connection holds the write lock of the database file
HoldsLock(c) == call[c].pc \in {"inserted", "refused"}

\* add_user of caller c on the database as it is committed now
Registration(c) == add_user(db, call[c].args[1], call[c].args[2])

\* cursor.execute(): a statement SQLite cannot read raises at once; otherwise
\* the INSERT waits for the write lock, and with the lock it either breaks
\* PRIMARY KEY (code 1) or leaves the row in the open transaction
Execute(c) ==
    /\ call[c].pc = "start"
    /\ IF Registration(c).ret.kind = "raise"
       THEN /\ ret' = [ret EXCEPT ![c] = Registration(c).ret]
            /\ call' = [call EXCEPT ![c].pc = "returned"]
       ELSE /\ \A other \in Callers \ {c} : ~HoldsLock(other)
            /\ IF Registration(c).ret.code # 0
               THEN /\ ret' = [ret EXCEPT ![c] = Registration(c).ret]
                    /\ call' = [call EXCEPT ![c].pc = "refused"]
               ELSE /\ ret' = ret
                    /\ call' = [call EXCEPT ![c].pc = "inserted"]
    /\ UNCHANGED <<db, registered>>

\* the INSERT has waited for the lock for the timeout of sqlite3.connect()
\* (5 seconds): sqlite3.OperationalError, which add_user does not catch
LockTimeout(c) ==
    /\ call[c].pc = "start"
    /\ Registration(c).ret.kind # "raise"
    /\ \E other \in Callers \ {c} : HoldsLock(other)
    /\ ret' = [ret EXCEPT ![c] = Raise("OperationalError: database is locked")]
    /\ call' = [call EXCEPT ![c].pc = "returned"]
    /\ UNCHANGED <<db, registered>>

\* self.conn.commit() and the return of add_user
Commit(c) ==
    /\ call[c].pc = "inserted"
    /\ db' = Registration(c).db
    /\ ret' = [ret EXCEPT ![c] = Registration(c).ret]
    /\ call' = [call EXCEPT ![c].pc = "returned"]
    /\ registered' = registered \cup {call[c].args}

\* the request ends and its connection is closed, which ends an open
\* transaction
Close(c) ==
    /\ call[c].pc \in {"refused", "returned"}
    /\ call' = [call EXCEPT ![c].pc = "closed"]
    /\ UNCHANGED <<db, ret, registered>>

NextConcurrent ==
    \E c \in Callers :
        \/ Execute(c)
        \/ LockTimeout(c)
        \/ Commit(c)
        \/ Close(c)

SpecConcurrent == InitConcurrent /\ [][NextConcurrent]_vars

(***************************************************************************)
(* What the claims speak of.                                               *)
(***************************************************************************)
\* the last call returned an envelope with code 0
Succeeded == ret.kind = "return" /\ ret.code = 0

\* the elements of a sequence
Range(seq) == {seq[i] : i \in 1..Len(seq)}

\* the timestamps get_slots reports for a person in the current database
SlotsOf(person) == Range(get_slots(db, person).ret.data)

\* the participants of the organize_meeting call in progress
Participants == {call.args[1].val} \cup Range(call.args[2].items)

\* an organize_meeting call with well-typed arguments has returned its data
MeetingDone ==
    /\ call.op = "organize_meeting"
    /\ Succeeded

(***************************************************************************)
(* C1: soundness of organize_meeting: every timestamp in the data of       *)
(* organize_meeting(x, L) occurs in get_slots(x) and in get_slots(i) for   *)
(* every i in L.                                                           *)
(***************************************************************************)
C1_MeetingSound ==
    MeetingDone =>
        \A t \in Range(ret.data) : \A person \in Participants : t \in SlotsOf(person)

(***************************************************************************)
(* C2: completeness of organize_meeting: every timestamp that every        *)
(* participant (x and each member of L) reports at least once in           *)
(* get_slots is in the data of organize_meeting(x, L).                     *)
(***************************************************************************)
C2_MeetingComplete ==
    MeetingDone =>
        \A t \in SlotsOf(call.args[1].val) :
            (\A person \in Participants : t \in SlotsOf(person))
                => t \in Range(ret.data)

(***************************************************************************)
(* C3: for a registered person p and instants a < b, a successful          *)
(* add_slots(p, a, b) makes get_slots(p) return exactly n =                *)
(* ceil((b - a) / 1 hour) more timestamps than before, the ISO forms of    *)
(* a + k*1h for k = 0..n-1.                                                *)
(***************************************************************************)
\* ceil((b - a) / 1 hour)
HoursCeil(a, b) ==
    LET secs == Seconds(b) - Seconds(a) IN
    (secs \div 3600)
        + (IF secs % 3600 > 0 \/ (secs % 3600 = 0 /\ b.us > a.us) THEN 1 ELSE 0)

\* a + k*1h
PlusHours(a, k) ==
    [a EXCEPT !.day = a.day + (a.h + k) \div 24, !.h = (a.h + k) % 24]

\* the ISO forms of a + k*1h for k = 0..n-1
ExpectedSlots(a, b) ==
    [k \in 1..HoursCeil(a, b) |-> isoformat(PlusHours(a, k - 1))]

C3_AddSlotsAddsHours ==
    [][(call'.op = "add_slots" /\ ret'.kind = "return" /\ ret'.code = 0)
         => LET p == call'.args[1].val
                before == get_slots(db, p).ret
                after == get_slots(db', p).ret
            IN /\ after.kind = "return"
               /\ after.data = before.data \o ExpectedSlots(call'.args[2], call'.args[3])
      ]_vars

(***************************************************************************)
(* C4: add_slots stores the range rounded down to the hour on both ends:   *)
(* the stored start and end are hour boundaries, and every timestamp       *)
(* returned by get_slots or organize_meeting is an hour-start (minutes     *)
(* and seconds zero).                                                      *)
(***************************************************************************)
\* YYYY-MM-DDTHH:00:00
IsHourStart(ts) ==
    /\ Len(ts) = 19
    /\ ts[15] = "0" /\ ts[16] = "0" /\ ts[18] = "0" /\ ts[19] = "0"

C4_HourBoundaries ==
    /\ \A i \in 1..Len(db.slots) :
          IsHourStart(db.slots[i].date_from) /\ IsHourStart(db.slots[i].date_to)
    /\ (call.op \in {"get_slots", "organize_meeting"} /\ Succeeded)
          => \A t \in Range(ret.data) : IsHourStart(t)

(***************************************************************************)
(* C5: add_slots returns a nonzero code whenever user_id is not a string   *)
(* or an instant is not a datetime, whenever end <= start, and whenever    *)
(* the person was never registered; it returns code 0 only when the        *)
(* arguments are well typed, end > start and the person is registered.     *)
(***************************************************************************)
\* add_user has succeeded for this user id
WasRegistered(user_id) == \E r \in registered : r[1] = user_id

AddSlotsWellTyped ==
    /\ isinstance(call.args[1], "str")
    /\ isinstance(call.args[2], "datetime")
    /\ isinstance(call.args[3], "datetime")

\* end <= start, for two instants that Python can compare
AddSlotsEmptyRange ==
    /\ CanSubtract(call.args[3], call.args[2])
    /\ ~DatetimeLess(call.args[2], call.args[3])

C5_AddSlotsRejects ==
    call.op = "add_slots" =>
        /\ (\/ ~AddSlotsWellTyped
            \/ AddSlotsEmptyRange
            \/ ~WasRegistered(call.args[1].val))
              => (ret.kind = "return" /\ ret.code # 0)
        /\ Succeeded
              => /\ AddSlotsWellTyped
                 /\ DatetimeLess(call.args[2], call.args[3])
                 /\ WasRegistered(call.args[1].val)

(***************************************************************************)
(* C6: writes are all-or-nothing: whenever add_user or add_slots returns   *)
(* a nonzero code, the registered people and the stored ranges are         *)
(* exactly what they were before the call.                                 *)
(***************************************************************************)
C6_AllOrNothing ==
    [][(/\ call'.op \in {"add_user", "add_slots"}
        /\ ret'.kind = "return"
        /\ ret'.code # 0) => db' = db]_vars

\* add_slots for an unknown person has been refused on a store that holds
\* people and ranges
C6_Witness ==
    /\ call.op = "add_slots"
    /\ ret.kind = "return"
    /\ ret.code = 3
    /\ db.people # {}
    /\ db.slots # <<>>

(***************************************************************************)
(* C7: duplicate registration is rejected, not overwritten: once           *)
(* add_user(p, n1) has succeeded, every later add_user(p, n2) returns a    *)
(* nonzero code and get_user(p) returns n1 in all later states.            *)
(***************************************************************************)
C7_DuplicateRejected ==
    /\ [][(call'.op = "add_user" /\ WasRegistered(call'.args[1]))
            => (ret'.kind = "return" /\ ret'.code # 0)]_vars
    /\ [](\A r \in registered :
            get_user(db, r[1]).ret = Return(0, "Operation successful", r[2]))

(***************************************************************************)
(* C8: round trip of the registry: after a successful add_user(P, name),   *)
(* get_user(P) returns code 0 with exactly that name, for every name;      *)
(* get_user(Q) for a never-registered Q returns code 0 with empty data.    *)
(***************************************************************************)
C8_RegistryRoundTrip ==
    /\ [][(call'.op = "add_user" /\ ret'.kind = "return" /\ ret'.code = 0)
            => get_user(db', call'.args[1]).ret
                 = Return(0, "Operation successful", call'.args[2])]_vars
    /\ []((call.op = "get_user" /\ ~WasRegistered(call.args[1]))
            => ret = Return(0, "Operation successful", <<>>))

(***************************************************************************)
(* C9: organize_meeting checks its arguments before it reads the store,    *)
(* in this order: interviewers not a list (code 1, InvalidInterviewerList),*)
(* interviewee not a string (code 2, InvalidInterviewee), interviewers     *)
(* empty (code 3, MissingInterviewer); each time the data is empty.        *)
(***************************************************************************)
C9_ValidationOrder ==
    call.op = "organize_meeting" =>
        LET interviewee == call.args[1]
            interviewers == call.args[2]
        IN /\ ~isinstance(interviewers, "list")
                => ret = Return(1, "Wrong list of interviewers", <<>>)
           /\ (isinstance(interviewers, "list") /\ ~isinstance(interviewee, "str"))
                => ret = Return(2, "Wrong interviewee name", <<>>)
           /\ (/\ isinstance(interviewers, "list")
               /\ isinstance(interviewee, "str")
               /\ Len(interviewers.items) = 0)
                => ret = Return(3, "Missing at least one interviewer", <<>>)

\* both arguments are of the wrong type and the list is reported, on a store
\* whose ranges get_slots cannot read
C9_Witness ==
    /\ call.op = "organize_meeting"
    /\ ~isinstance(call.args[2], "list")
    /\ ~isinstance(call.args[1], "str")
    /\ ret.kind = "return"
    /\ ret.code = 1
    /\ get_slots(db, call.args[2].val).ret.kind = "raise"

(***************************************************************************)
(* C10: the data of a successful organize_meeting is in ascending          *)
(* lexicographic order of the timestamp strings, and this is the           *)
(* chronological order of the instants.                                    *)
(***************************************************************************)
C10_SortedChronological ==
    MeetingDone =>
        \A i \in 1..Len(ret.data) : \A j \in 1..Len(ret.data) :
            i < j => /\ StrLess(ret.data[i], ret.data[j])
                     /\ DatetimeLess(strptime(ret.data[i]).dt, strptime(ret.data[j]).dt)

\* a meeting of several slots that the dict held in another order
C10_Witness ==
    /\ MeetingDone
    /\ Len(ret.data) >= 2
    /\ CommonSlots(Aggregate(db, call.args[2].items \o <<call.args[1].val>>, <<>>).aggr,
                   call.args[2].items) # ret.data

(***************************************************************************)
(* C11: get_slots is a read: a second get_slots(p) with no write in        *)
(* between returns the same sequence, in order and content, and get_slots  *)
(* and organize_meeting leave the registered people and the stored ranges  *)
(* unchanged.                                                              *)
(***************************************************************************)
C11_ReadOnly ==
    [][/\ call'.op \in {"get_slots", "organize_meeting"} => db' = db
       /\ call'.op = "get_slots" => get_slots(db', call'.args[1]).ret = ret'
      ]_vars

\* get_slots has reported the slots of a person, and reading again reports
\* them again
C11_Witness ==
    /\ call.op = "get_slots"
    /\ Succeeded
    /\ ret.data # <<>>
    /\ get_slots(db, call.args[1]).ret.data = ret.data

(***************************************************************************)
(* C12: get_slots does not deduplicate: the number of times a timestamp t  *)
(* occurs in get_slots(p) is the number of stored ranges of p whose        *)
(* expansion contains t, so two overlapping ranges of one person yield     *)
(* each shared hour twice.                                                 *)
(***************************************************************************)
\* the number of occurrences of t in a sequence
CountIn(t, seq) == Cardinality({j \in 1..Len(seq) : seq[j] = t})

\* t is start + k*1h for some k >= 0 and is below the end of the stored range
Contains(row, t) ==
    LET start == strptime(row.date_from)
        end == strptime(row.date_to)
        at == strptime(t)
    IN /\ start.ok /\ end.ok /\ at.ok
       /\ ~DatetimeLess(at.dt, start.dt)
       /\ DatetimeLess(at.dt, end.dt)
       /\ (Seconds(at.dt) - Seconds(start.dt)) % 3600 = 0

\* the timestamps of the hours and half hours of the day of the model
SlotTexts == {isoformat(Naive(h, mi, 0)) : h \in 8..12, mi \in {0, 30}}

\* the stored ranges of person p
RangesOf(p) == {i \in 1..Len(db.slots) : db.slots[i].username = p}

C12_DuplicatesKept ==
    (call.op = "get_slots" /\ Succeeded) =>
        \A t \in SlotTexts \cup Range(ret.data) :
            CountIn(t, ret.data)
                = Cardinality({i \in RangesOf(call.args[1]) : Contains(db.slots[i], t)})

\* two ranges of the person share an hour, which get_slots reports twice
C12_Witness ==
    /\ call.op = "get_slots"
    /\ Succeeded
    /\ \E t \in Range(ret.data) : CountIn(t, ret.data) = 2

(***************************************************************************)
(* C13: get_slots(p) for a person p that was never registered, or that has *)
(* no ranges, returns code 0 with an empty sequence in every reachable     *)
(* state of the store, while add_slots for the same unregistered p is      *)
(* rejected.                                                               *)
(***************************************************************************)
C13_UnknownPersonReads ==
    /\ (/\ call.op = "get_slots"
        /\ (~WasRegistered(call.args[1]) \/ RangesOf(call.args[1]) = {}))
          => ret = Return(0, "Operation successful", <<>>)
    /\ (/\ call.op = "add_slots"
        /\ isinstance(call.args[1], "str")
        /\ ~WasRegistered(call.args[1].val))
          => ~Succeeded

(***************************************************************************)
(* C14: no operation fails outside the result envelope: after any sequence *)
(* of add_user and add_slots calls, with any instants that add_slots       *)
(* accepts (sub-second parts and UTC offsets included), every call of      *)
(* add_user, get_user, add_slots, get_slots and organize_meeting returns   *)
(* an envelope with a code and never propagates an exception.              *)
(***************************************************************************)
C14_NoExceptionEscapes ==
    call # NoCall => (ret.kind = "return" /\ ret.code \in 0..3)

(***************************************************************************)
(* C15: adapters add no status semantics of their own: for every command   *)
(* of the command line and every method of the HTTP resources, the adapter *)
(* reports an error (a message on stderr, a 4xx response) exactly when the *)
(* envelope of the request has code # 0, and success whenever the code is  *)
(* 0.                                                                      *)
(***************************************************************************)
\* a call has returned an envelope to its adapter
Answered == call # NoCall /\ ret.kind = "return"

\* the adapters report an error
HttpError == FlaskStatus(call, ret) \in 400..499

CliError == CliReport(call, ret) = "stderr"

Queried == call.args[2].items \o <<call.args[1].val>>

\* the occurrences of t over the get_slots outputs of the entries of persons
RECURSIVE Occurrences(_, _)
Occurrences(t, persons) ==
    IF persons = <<>> THEN 0
    ELSE CountIn(t, get_slots(db, Head(persons)).ret.data)
             + Occurrences(t, Tail(persons))

\* the timestamps that get_slots reports for some entry of persons
Reported(persons) ==
    UNION {Range(get_slots(db, persons[i]).ret.data) : i \in 1..Len(persons)}

\* a timestamp that no entry reports occurs 0 times and qualifies for no
\* list, so the timestamps to decide are the reported and the returned ones
C16_CountingRule ==
    MeetingDone =>
        /\ \A t \in Reported(Queried) \cup Range(ret.data) :
              t \in Range(ret.data)
                  <=> Occurrences(t, Queried) = 1 + Len(call.args[2].items)
        /\ \A t \in Range(ret.data) : CountIn(t, ret.data) = 1

\* a meeting is returned at a timestamp that one of the entries reports twice
C16_Witness ==
    /\ MeetingDone
    /\ \E t \in Range(ret.data) : \E i \in 1..Len(Queried) :
          CountIn(t, get_slots(db, Queried[i]).ret.data) = 2

(***************************************************************************)
(* C17: organize_meeting treats the participants as the set {interviewee}  *)
(* with the interviewers, each person counted once: in every reachable     *)
(* state, for two non-empty lists L and L' with the same set of            *)
(* participants, organize_meeting(x, L) and organize_meeting(x, L') return *)
(* the same data, whatever the order, the repetitions, or x being listed.  *)
(***************************************************************************)
C17_ParticipantsAsSet ==
    MeetingDone =>
        \A other \in ListsUpTo({X, M}, MaxList) :
            (other # <<>> /\ {call.args[1].val} \cup Range(other) = Participants)
                => organize_meeting(db, call.args[1], PyList(other)).ret.data = ret.data

(***************************************************************************)
(* C18: add_slots reports one failure kind with a fixed precedence: a      *)
(* wrong argument type (code 1) is checked before an empty range (code 2), *)
(* which is checked before an unknown person (code 3); the three codes     *)
(* are pairwise distinct, and an empty range for an unregistered person    *)
(* reports the empty range, never the unknown person.                      *)
(***************************************************************************)
C18_FailurePrecedence ==
    call.op = "add_slots" =>
        /\ ~AddSlotsWellTyped
              => ret = Return(1, "Error in add_slots: parameters of wrong type", <<>>)
        /\ (AddSlotsWellTyped /\ AddSlotsEmptyRange)
              => ret = Return(2, "Error in add_slots: empty range", <<>>)
        /\ (ret.kind = "return" /\ ret.code = 1) => ~AddSlotsWellTyped
        /\ (ret.kind = "return" /\ ret.code = 2)
              => (AddSlotsWellTyped /\ AddSlotsEmptyRange)
        /\ (ret.kind = "return" /\ ret.code = 3)
              => /\ AddSlotsWellTyped
                 /\ DatetimeLess(call.args[2], call.args[3])
                 /\ ~WasRegistered(call.args[1].val)

\* an empty range for a person that was never registered is reported as
\* the empty range
C18_Witness ==
    /\ call.op = "add_slots"
    /\ AddSlotsWellTyped
    /\ AddSlotsEmptyRange
    /\ ~WasRegistered(call.args[1].val)
    /\ ret.kind = "return"
    /\ ret.code = 2

(***************************************************************************)
(* C19: get_slots returns the concatenation of the expansions of the       *)
(* person's stored ranges, one range after the other in the order of the   *)
(* store, each expansion ascending in steps of one hour from its start     *)
(* while below its end; the whole sequence is not sorted when a range      *)
(* stored later starts earlier than one stored before it.                  *)
(***************************************************************************)
\* start, start + 1h, ... while below the end of the stored range
Expansion(row) ==
    ExpectedSlots(strptime(row.date_from).dt, strptime(row.date_to).dt)

\* the expansions of the rows, one after the other
RECURSIVE Concatenation(_)
Concatenation(rows) ==
    IF rows = <<>> THEN <<>>
    ELSE Expansion(Head(rows)) \o Concatenation(Tail(rows))

\* no element of the sequence is below the one before it
Ascending(seq) == \A k \in 1..(Len(seq) - 1) : ~StrLess(seq[k + 1], seq[k])

\* a range of p stored later starts earlier than one stored before it
LaterStartsEarlier(p) ==
    \E i \in RangesOf(p) : \E j \in RangesOf(p) :
        /\ i < j
        /\ DatetimeLess(strptime(db.slots[j].date_from).dt,
                        strptime(db.slots[i].date_from).dt)

C19_StoreOrder ==
    (call.op = "get_slots" /\ Succeeded) =>
        /\ ret.data = Concatenation(SelectSeq(db.slots,
                                              LAMBDA r : r.username = call.args[1]))
        /\ LaterStartsEarlier(call.args[1]) => ~Ascending(ret.data)

\* get_slots has reported two ranges of which the second starts earlier
C19_Witness ==
    /\ call.op = "get_slots"
    /\ Succeeded
    /\ LaterStartsEarlier(call.args[1])
    /\ ~Ascending(ret.data)

(***************************************************************************)
(* C20: store well-formedness: in every state reachable by add_user and    *)
(* add_slots calls, every stored range belongs to a registered person and  *)
(* has its stored end strictly after its stored start (so every stored     *)
(* range expands to at least one slot).                                    *)
(***************************************************************************)
\* the instant that a stored text YYYY-MM-DDTHH:MM:SS[.ffffff][+HH:MM] names
StoredInstant(text) ==
    LET fraction == Len(text) >= 26 /\ text[20] = "."
        us == IF fraction
              THEN 100000 * DigitVal(text[21]) + 10000 * DigitVal(text[22])
                   + 1000 * DigitVal(text[23]) + 100 * DigitVal(text[24])
                   + 10 * DigitVal(text[25]) + DigitVal(text[26])
              ELSE 0
    IN Datetime(10 * DigitVal(text[9]) + DigitVal(text[10]),
                10 * DigitVal(text[12]) + DigitVal(text[13]),
                10 * DigitVal(text[15]) + DigitVal(text[16]),
                us,
                SubSeq(text, IF fraction THEN 27 ELSE 20, Len(text)))

BothOver == \A c \in Callers : call[c].pc \in {"refused", "returned", "closed"}

C21_ConcurrentRegistration ==
    BothOver =>
        \E c \in Callers : \E other \in Callers \ {c} :
            /\ ret[c] = Return(0, "Operation successful", <<>>)
            /\ ret[other] = Return(1, "Cannot add user: user already exists", <<>>)
            /\ get_user(db, call[c].args[1]).ret
                 = Return(0, "Operation successful", call[c].args[2])

(***************************************************************************)
(* C22: adding availability never loses a meeting slot: for every          *)
(* interviewee x and non-empty list L of interviewers, a timestamp that is *)
(* in the data of organize_meeting(x, L) in some state is still in the     *)
(* data of organize_meeting(x, L) after any later successful add_slots     *)
(* call for any person.                                                    *)
(***************************************************************************)
\* the timestamps organize_meeting(x, L) returns on database d
MeetingSlots(d, x, L) == Range(organize_meeting(d, Str(x), PyList(L)).ret.data)

C22_NoSlotLost ==
    [][(call'.op = "add_slots" /\ ret'.kind = "return" /\ ret'.code = 0)
         => \A x \in {X, M} : \A L \in ListsUpTo({X, M}, MaxList) \ {<<>>} :
                MeetingSlots(db, x, L) \subseteq MeetingSlots(db', x, L)
      ]_vars

====
